---- MODULE Spec2Model ----
(***************************************************************************)
(* The PitstopPage job controller (src/src/pages/PitstopPage.tsx) as a      *)
(* state machine: the React state and refs of one mounted page, the        *)
(* browser's interval timers and blob URLs, the requests in flight, and    *)
(* the backend's jobs.                                                     *)
(*                                                                         *)
(* One action is one JavaScript task: a UI event handler, a timer tick or  *)
(* the continuation of an awaited request, run to completion together with *)
(* the render it causes and the effect cleanups of that render.  A         *)
(* callback sees the state of the render that created it: a continuation   *)
(* keeps the values captured when its handler was invoked.                 *)
(***************************************************************************)
EXTENDS Integers, Sequences, FiniteSets, TLC

NULL == "null"       \* a null string (file, error)
NoId == 0            \* a null job id, timer id or blob URL
NoUrl == <<>>        \* a null output URL
NoJob == [job_id |-> NoId, status |-> NULL, stage |-> NULL]   \* job = null

\* ------------------------------------------------------------------ bounds
MaxJobs == 2        \* run() submissions in one run of the page
MaxInFlight == 2    \* status fetches of the poll loops in flight at once
MaxLoads == 1       \* history loads (getJob of handleLoadJob) in flight at once
MaxOutFetch == 2    \* output blob fetches in flight at once
MaxBlobs == 3       \* blob URLs the program holds or remembers at once

OneRun == 1          \* Spec: submissions
OnePoll == 1         \* SpecRuns: status fetches in flight at once
OneOut == 1          \* SpecRuns: output fetches in flight at once
MaxLoadsRun == 2     \* Spec: history rows loaded in one run of the page
OneLoad == 1         \* SpecRuns: history rows loaded
MaxDownloads == 1    \* downloads in flight at once
MaxDownBlobs == 1    \* object URLs of downloads awaiting their revocation
MaxHist == 2         \* history list fetches in flight at once
SmallTotal == 1      \* Spec, SpecRuns: the number of jobs the backend lists
BigTotal == 12       \* SpecHist: the number of jobs a non-empty backend lists

Files == {"f1"}
JobIds == 1 .. MaxJobs          \* ids the backend gives to created jobs
\* The rows a window of the run history shows, and those with a play button.
HistRows ==
  { [job_id |-> 101, status |-> "COMPLETE",   has_output |-> TRUE],
    [job_id |-> 102, status |-> "PROCESSING", has_output |-> FALSE],
    [job_id |-> 103, status |-> "COMPLETE",   has_output |-> FALSE] }
canPlayAny(r) == TRUE     \* canPlay without its test
canPlay(r) == r.status = "COMPLETE" /\ r.has_output
HistIds == {r.job_id : r \in {x \in HistRows : canPlay(x)}}
BlobIds == 1 .. MaxBlobs
Sizes == {5, 10}                \* rowsPerPageOptions offered and used
Totals == {0, BigTotal}         \* totals the list endpoint reports

\* ------------------------------------------------------------ the backend
\* The lifecycle of a job on the backend, as (status, stage) snapshots.
Snap ==
  << [status |-> "QUEUED",     stage |-> "UPLOAD",    progress |-> 0],
     [status |-> "PROCESSING", stage |-> "RENDERING", progress |-> 80],
     [status |-> "COMPLETE",   stage |-> "COMPLETE",  progress |-> 100] >>
FailedSnap == [status |-> "FAILED", stage |-> "FAILED", progress |-> 50]
LastRank == Len(Snap)
FailedPos == LastRank + 1       \* the position of a job that has failed
SnapAt(p) == IF p = FailedPos THEN FailedSnap ELSE Snap[p]
\* The logs a snapshot carries (never empty once the job exists).
SnapLogs(s) == <<s.stage>>

\* ------------------------------------------------------- pure projections
mapBackendToUIStatus(st, stage) ==
  IF st = NULL THEN "idle"
  ELSE CASE st = "QUEUED" -> "queued"
         [] st = "PROCESSING" -> IF stage = "RENDERING" THEN "rendering" ELSE "processing"
         [] st = "COMPLETE" -> "complete"
         [] st = "FAILED" -> "failed"
         [] OTHER -> "idle"

\* getStepFromBackend with COMPLETE on the last step, not past it.
getStepFromBackendFour(st, stage) ==
  IF st = NULL THEN -1
  ELSE CASE st = "QUEUED" -> IF stage = "UPLOAD" THEN 0 ELSE 1
         [] st = "PROCESSING" -> IF stage = "RENDERING" THEN 3 ELSE 2
         [] st = "COMPLETE" -> 4
         [] OTHER -> -1

getStepFromBackend(st, stage) ==
  IF st = NULL THEN -1
  ELSE CASE st = "QUEUED" -> IF stage = "UPLOAD" THEN 0 ELSE 1
         [] st = "PROCESSING" ->
              IF stage = "DETECTING" \/ stage = "TRACKING" THEN 2
              ELSE IF stage = "RENDERING" THEN 3 ELSE 2
         [] st = "COMPLETE" -> 5
         [] st = "FAILED" -> -1
         [] OTHER -> -1

getActiveStep(uiStatus, stage) ==
  CASE uiStatus = "idle" -> -1
    [] uiStatus = "uploading" -> 0
    [] uiStatus = "queued" -> IF stage = "UPLOAD" THEN 0 ELSE 1
    [] uiStatus = "processing" -> 2
    [] uiStatus = "rendering" -> 3
    [] uiStatus = "complete" -> 5
    [] uiStatus = "failed" -> -1
    [] OTHER -> -1

getOutputUrl(id) == <<"output", id>>

\* The (status, stage) pairs a job of the backend can carry: the four
\* statuses, none, and one the client does not know; the six stages, none,
\* and stage tags the client does not know.
BackendStatuses == {NULL, "QUEUED", "PROCESSING", "COMPLETE", "FAILED", "CANCELLED"}
BackendStages ==
  {NULL, "UPLOAD", "DETECTING", "TRACKING", "RENDERING", "COMPLETE", "FAILED",
   "TRANSCODING", "OTHER", ""}
NoProj == [none |-> TRUE]

\* ------------------------------------------------------------------ state
VARIABLES
  file, fileUrl,                       \* useState: the selected file and its blob URL
  jobId, job, status, progress, logs, error,
  outputUrl, outputBlobUrl, isLoadingOutput,
  loadingJobId,
  pollIntervalRef,                     \* useRef: id of the interval last registered
  timers,                              \* the browser's active intervals
  liveIn, liveOut,                     \* blob URLs created and not revoked, by kind
  runs,                                \* run() submissions issued so far
  nLoads,                              \* history rows loaded so far
  creates, polls, loads, outs,         \* requests in flight, in issue order
  srv,                                 \* the backend's record of each created job
  page, rowsPerPage, totalJobs,        \* useState: pagination of the run history
  runHistory,                          \* the window shown: the reply it came from
  isLoadingHistory,
  hists,                               \* getJobs requests in flight, in issue order
  outFetched,                          \* fetchOutputAsBlob calls of a job's polls
  projIn, projOut,                     \* a backend (status, stage) and its projection
  blobOf,                              \* the job whose output a blob URL holds
  downs,                               \* downloadOutput requests in flight
  downloadBlobs                        \* object URLs of downloadOutput not yet revoked

viewVars == <<file, fileUrl, jobId, job, status, progress, logs, error,
              outputUrl, outputBlobUrl, isLoadingOutput, loadingJobId>>
envVars == <<pollIntervalRef, timers, liveIn, liveOut>>
netVars == <<runs, nLoads, creates, polls, loads, outs, srv>>
histVars == <<page, rowsPerPage, totalJobs, runHistory, isLoadingHistory, hists>>
auxVars == <<outFetched>>
projVars == <<projIn, projOut>>
downVars == <<downs, downloadBlobs>>
vars == <<viewVars, envVars, netVars, histVars, auxVars, projVars, blobOf, downVars>>

RemoveAt(s, i) == [k \in 1 .. (Len(s) - 1) |-> IF k < i THEN s[k] ELSE s[k + 1]]

\* What the ResultsPanel gets as outputUrl, and its Download button's disabled.
videoPlaybackUrl ==
  IF outputBlobUrl # NoId THEN <<"blob", outputBlobUrl>> ELSE outputUrl
downloadDisabled == videoPlaybackUrl = NoUrl \/ isLoadingOutput

isRunning == status \in {"uploading", "queued", "processing", "rendering"}
canRun == file # NULL /\ ~isRunning

\* URL.createObjectURL returns a URL never seen before.  A revoked URL that no
\* state, ref or closure still holds cannot be told from a new one, so the
\* model takes the least such id.
Range(s) == {s[k] : k \in 1 .. Len(s)}
Held ==
  liveIn \cup liveOut \cup {fileUrl, outputBlobUrl}
    \cup {t.cap : t \in timers}
    \cup {r.cap : r \in Range(creates) \cup Range(loads)}
    \cup {r.cap : r \in Range(polls)} \cup {r.cap : r \in Range(outs)}
CanCreate == BlobIds \ Held # {}
createObjectURL == CHOOSE b \in BlobIds \ Held : \A c \in BlobIds \ Held : b <= c

nJobs == Cardinality({j \in JobIds : srv[j].rank > 0})


\* --------------------------------------------------- callbacks of the page
\* stopPolling with the clearInterval call left out: the ref is nulled and
\* the interval keeps firing.
stopPollingKeepsInterval(ref, tm) == [ref |-> NoId, timers |-> tm]

\* stopPolling clearing the oldest interval instead of the one in the ref.
stopPollingOldest(ref, tm) ==
  IF tm # {}
    THEN [ref |-> NoId,
          timers |-> tm \ {CHOOSE t \in tm : \A u \in tm : t.id <= u.id}]
    ELSE [ref |-> NoId, timers |-> tm]

\* stopPolling: clearInterval(pollIntervalRef.current), then null the ref.
stopPolling(ref, tm) ==
  IF ref # NoId
    THEN [ref |-> NoId, timers |-> {t \in tm : t.id # ref}]
    ELSE [ref |-> ref, timers |-> tm]

\* startPolling with the setInterval call left out.
startPollingNoInterval(id, cap, ref, tm) == [ref |-> ref, timers |-> tm]

\* startPolling, its interval: the id setInterval returns is stored in the ref;
\* whatever the ref held is overwritten, not cleared.  The interval keeps the
\* pollJobStatus of the render that created it (cap: its outputBlobUrl).
startPolling(id, cap, ref, tm) ==
  [ref |-> id, timers |-> tm \cup {[id |-> id, cap |-> cap]}]

\* cleanupBlobUrls: revoke outputBlobUrl and set it to null.
cleanupBlobUrls(obu, live) ==
  IF obu # NoId
    THEN [outputBlobUrl |-> NoId, liveOut |-> live \ {obu}]
    ELSE [outputBlobUrl |-> obu, liveOut |-> live]

\* URL.revokeObjectURL(u), guarded by "if (u)".
revoke(u, live) == IF u # NoId THEN live \ {u} ELSE live

\* Cleanup of the effect on [stopPolling, fileUrl], run when fileUrl changes:
\* stopPolling(), and revoke the fileUrl of the previous render.
fileUrlCleanup(old, new, sp) ==
  IF new # old THEN stopPolling(sp.ref, sp.timers) ELSE sp
fileUrlRevoke(old, new, live) ==
  IF new # old THEN revoke(old, live) ELSE live

\* Cleanup of the effect on [outputBlobUrl]: revoke the previous render's URL.
outputBlobUrlCleanup(old, new, live) ==
  IF new # old THEN revoke(old, live) ELSE live

\* ------------------------------------------------------------ run history
\* The window of the list endpoint for a request, when the backend lists
\* `total` jobs: a non-empty window holds the rows of HistRows.
NoWindow == [limit |-> 0, offset |-> 0, rows |-> {}]
Window(req, total) ==
  [limit |-> req.limit, offset |-> req.offset,
   rows |-> IF req.offset < total THEN HistRows ELSE {}]

\* fetchRunHistory with the offset of a 0-based page number.
fetchRunHistoryZeroBased(hs, pageNum, perPage) ==
  Append(hs, [limit |-> perPage, offset |-> pageNum * perPage])

\* fetchRunHistory(pageNum, perPage) up to its await: one getJobs in flight.
fetchRunHistory(hs, pageNum, perPage) ==
  Append(hs, [limit |-> perPage, offset |-> (pageNum - 1) * perPage])

\* The status effect with only its complete branch.
statusEffectCompleteOnly(old, new, pg, rpp, hs) ==
  IF new = "complete" /\ new # old
    THEN [page |-> 1, loading |-> TRUE,
          hists |-> IF pg # 1
                      THEN fetchRunHistory(fetchRunHistory(hs, 1, rpp), 1, rpp)
                      ELSE fetchRunHistory(hs, 1, rpp)]
    ELSE [page |-> pg, loading |-> isLoadingHistory, hists |-> hs]

\* The effect on [status, fetchRunHistory, rowsPerPage], run by the render in
\* which status became complete or failed: setPage(1) and fetchRunHistory(1,
\* rowsPerPage); when setPage(1) changes the page, the render it causes runs
\* the effect on [fetchRunHistory, page, rowsPerPage], which fetches again.
statusEffect(old, new, pg, rpp, hs) ==
  IF new \in {"complete", "failed"} /\ new # old
    THEN [page |-> 1, loading |-> TRUE,
          hists |-> IF pg # 1
                      THEN fetchRunHistory(fetchRunHistory(hs, 1, rpp), 1, rpp)
                      ELSE fetchRunHistory(hs, 1, rpp)]
    ELSE [page |-> pg, loading |-> isLoadingHistory, hists |-> hs]

\* -------------------------------------------------------------- the start
InitPage ==
  /\ file = NULL /\ fileUrl = NoId
  /\ jobId = NoId /\ job = NoJob /\ status = "idle"
  /\ progress = 0 /\ logs = <<>> /\ error = NULL
  /\ outputUrl = NoUrl /\ outputBlobUrl = NoId /\ isLoadingOutput = FALSE
  /\ loadingJobId = NoId
  /\ pollIntervalRef = NoId /\ timers = {}
  /\ liveIn = {} /\ liveOut = {}
  /\ runs = 0 /\ nLoads = 0
  /\ creates = <<>> /\ polls = <<>> /\ loads = <<>> /\ outs = <<>>
  /\ srv = [j \in JobIds |-> [rank |-> 0, failed |-> FALSE]]
  /\ page = 1 /\ rowsPerPage = 5 /\ totalJobs = 0
  /\ runHistory = NoWindow
  /\ isLoadingHistory = TRUE
  /\ hists = fetchRunHistory(<<>>, 1, 5)
  /\ outFetched = [j \in JobIds |-> 0]
  /\ blobOf = [b \in BlobIds |-> NoId]
  /\ downs = <<>> /\ downloadBlobs = 0

Init == InitPage /\ projIn = NoProj /\ projOut = NoProj

\* ------------------------------------------------------------ UI handlers
\* handleFileSelect(selectedFile); the UploadPanel is disabled while running
\* and passes the file dropped or picked, never null.
SelectFile(f) ==
  /\ ~isRunning
  /\ f # NULL => CanCreate
  /\ LET sp == stopPolling(pollIntervalRef, timers)
         cb == cleanupBlobUrls(outputBlobUrl, liveOut)
         in1 == revoke(fileUrl, liveIn)
         url == IF f # NULL THEN createObjectURL ELSE NoId
         in2 == IF f # NULL THEN in1 \cup {url} ELSE in1
         sp2 == fileUrlCleanup(fileUrl, url, sp)
     IN /\ file' = f
        /\ fileUrl' = url
        /\ liveIn' = fileUrlRevoke(fileUrl, url, in2)
        /\ liveOut' = outputBlobUrlCleanup(outputBlobUrl, cb.outputBlobUrl, cb.liveOut)
        /\ outputBlobUrl' = cb.outputBlobUrl
        /\ pollIntervalRef' = sp2.ref
        /\ timers' = sp2.timers
  /\ status' = "idle" /\ progress' = 0 /\ logs' = <<>>
  /\ outputUrl' = NoUrl /\ jobId' = NoId /\ job' = NoJob /\ error' = NULL
  /\ UNCHANGED <<isLoadingOutput, loadingJobId, netVars, histVars, outFetched, projVars, blobOf, downVars>>

\* handleReset; the Reset button is disabled while running.
Reset ==
  /\ ~isRunning
  /\ LET sp == stopPolling(pollIntervalRef, timers)
         cb == cleanupBlobUrls(outputBlobUrl, liveOut)
         in1 == revoke(fileUrl, liveIn)
         sp2 == fileUrlCleanup(fileUrl, NoId, sp)
     IN /\ file' = NULL
        /\ fileUrl' = NoId
        /\ liveIn' = fileUrlRevoke(fileUrl, NoId, in1)
        /\ liveOut' = outputBlobUrlCleanup(outputBlobUrl, cb.outputBlobUrl, cb.liveOut)
        /\ outputBlobUrl' = cb.outputBlobUrl
        /\ pollIntervalRef' = sp2.ref
        /\ timers' = sp2.timers
  /\ status' = "idle" /\ progress' = 0 /\ logs' = <<>>
  /\ outputUrl' = NoUrl /\ jobId' = NoId /\ job' = NoJob /\ error' = NULL
  /\ UNCHANGED <<isLoadingOutput, loadingJobId, netVars, histVars, outFetched, projVars, blobOf, downVars>>

\* runJob up to its await; the Run button is enabled when canRun.  The
\* continuation keeps the startPolling of this render, hence its outputBlobUrl.
Run(maxRuns) ==
  /\ canRun
  /\ runs < maxRuns
  /\ LET cb == cleanupBlobUrls(outputBlobUrl, liveOut)
     IN /\ outputBlobUrl' = cb.outputBlobUrl
        /\ liveOut' = outputBlobUrlCleanup(outputBlobUrl, cb.outputBlobUrl, cb.liveOut)
  /\ error' = NULL /\ progress' = 0 /\ outputUrl' = NoUrl /\ job' = NoJob
  /\ status' = "uploading"
  /\ logs' = <<"uploading">>
  /\ creates' = Append(creates, [file |-> file, cap |-> outputBlobUrl])
  /\ runs' = runs + 1
  /\ UNCHANGED <<file, fileUrl, jobId, isLoadingOutput, loadingJobId,
                 pollIntervalRef, timers, liveIn, nLoads,
                 polls, loads, outs, srv, histVars, outFetched, projVars, blobOf, downVars>>

\* ------------------------------------------------ the backend, continued
\* Where job j stands, and the snapshots a status fetch issued at position
\* `at` may return now: the backend answers at some moment between the
\* request and the response.
Pos(j) == IF srv[j].failed THEN FailedPos ELSE srv[j].rank
Answers(j, at) ==
  IF at = FailedPos THEN {FailedPos}
  ELSE (at .. srv[j].rank) \cup (IF srv[j].failed THEN {FailedPos} ELSE {})
JobOf(id, s) == [job_id |-> id, status |-> s.status, stage |-> s.stage]

SrvAdvance(j) ==
  /\ srv[j].rank \in 1 .. (LastRank - 1) /\ ~srv[j].failed
  /\ srv' = [srv EXCEPT ![j].rank = @ + 1]
  /\ UNCHANGED <<viewVars, envVars, runs, nLoads, creates, polls, loads, outs, histVars, outFetched, projVars, blobOf, downVars>>

SrvFail(j) ==
  /\ srv[j].rank \in 1 .. (LastRank - 1) /\ ~srv[j].failed
  /\ srv' = [srv EXCEPT ![j].failed = TRUE]
  /\ UNCHANGED <<viewVars, envVars, runs, nLoads, creates, polls, loads, outs, histVars, outFetched, projVars, blobOf, downVars>>

\* ------------------------------------------------------------- the poller
\* pollJobStatus(id) up to its await: one getJob in flight, issued by loop id.
issuePoll(ps, id, cap, at) ==
  Append(ps, [loop |-> id, cap |-> cap, at |-> at, late |-> FALSE])

\* The requests left in flight once request i is answered; those of its loop
\* issued before it are marked as overtaken by a later response.
Overtake(ps, i) ==
  RemoveAt([k \in 1 .. Len(ps) |->
              IF k < i /\ ps[k].loop = ps[i].loop
                THEN [ps[k] EXCEPT !.late = TRUE] ELSE ps[k]], i)

\* fetchOutputAsBlob that never fetches.
issueOutNone(os, id, cap, from) == os

\* fetchOutputAsBlob(id) up to its await: one output fetch in flight.
issueOut(os, id, cap, from) == Append(os, [job |-> id, cap |-> cap, from |-> from])

\* runJob after createJob resolved: the backend created job id.
CreateOk(i, maxPolls) ==
  /\ i \in 1 .. Len(creates)
  /\ Len(polls) < maxPolls
  /\ LET id == nJobs + 1
         resp == Snap[1]
         sp == startPolling(id, creates[i].cap, pollIntervalRef, timers)
     IN /\ srv' = [srv EXCEPT ![id] = [rank |-> 1, failed |-> FALSE]]
        /\ jobId' = id
        /\ job' = JobOf(id, resp)
        /\ logs' = Append(logs, "created")
        /\ status' = mapBackendToUIStatus(resp.status, resp.stage)
        /\ polls' = issuePoll(polls, id, creates[i].cap, 1)
        /\ pollIntervalRef' = sp.ref
        /\ timers' = sp.timers
  /\ creates' = RemoveAt(creates, i)
  /\ UNCHANGED <<file, fileUrl, progress, error, outputUrl, outputBlobUrl,
                 isLoadingOutput, loadingJobId, liveIn, liveOut,
                 runs, nLoads, loads, outs, histVars, outFetched, projVars, blobOf, downVars>>

\* runJob after createJob threw (transport error or non-2xx).
CreateFail(i) ==
  /\ i \in 1 .. Len(creates)
  /\ status' = "failed"
  /\ error' = "Upload failed"
  /\ logs' = Append(logs, "error")
  /\ creates' = RemoveAt(creates, i)
  /\ LET se == statusEffect(status, "failed", page, rowsPerPage, hists)
     IN /\ Len(se.hists) <= MaxHist
        /\ page' = se.page /\ hists' = se.hists /\ isLoadingHistory' = se.loading
  /\ UNCHANGED <<file, fileUrl, jobId, job, progress, outputUrl, outputBlobUrl,
                 isLoadingOutput, loadingJobId, envVars,
                 runs, nLoads, polls, loads, outs, srv,
                 rowsPerPage, totalJobs, runHistory, outFetched, projVars, blobOf, downVars>>

\* One firing of an active interval: pollJobStatus(id) of the loop's closure.
Tick(t, maxPolls) ==
  /\ t \in timers
  /\ Len(polls) < maxPolls
  /\ polls' = issuePoll(polls, t.id, t.cap, Pos(t.id))
  /\ UNCHANGED <<viewVars, envVars, runs, nLoads, creates, loads, outs, srv, histVars, outFetched, projVars, blobOf, downVars>>

\* pollJobStatus after getJob resolved with the snapshot at position p.
PollOk(i, p, maxOuts) ==
  /\ i \in 1 .. Len(polls)
  /\ p \in Answers(polls[i].loop, polls[i].at)
  /\ LET id == polls[i].loop
         jobData == SnapAt(p)
         done == jobData.status = "COMPLETE"
         failed == jobData.status = "FAILED"
         sp == IF done \/ failed THEN stopPolling(pollIntervalRef, timers)
               ELSE [ref |-> pollIntervalRef, timers |-> timers]
         se == statusEffect(status, mapBackendToUIStatus(jobData.status, jobData.stage),
                            page, rowsPerPage, hists)
     IN /\ done => Len(outs) < maxOuts
        /\ Len(se.hists) <= MaxHist
        /\ page' = se.page /\ hists' = se.hists /\ isLoadingHistory' = se.loading
        /\ job' = JobOf(id, jobData)
        /\ status' = mapBackendToUIStatus(jobData.status, jobData.stage)
        /\ progress' = IF done THEN 100 ELSE jobData.progress
        /\ logs' = SnapLogs(jobData)
        /\ outputUrl' = IF done THEN getOutputUrl(id) ELSE outputUrl
        /\ error' = IF failed THEN "Job processing failed" ELSE error
        /\ pollIntervalRef' = sp.ref
        /\ timers' = sp.timers
        /\ isLoadingOutput' = IF done THEN TRUE ELSE isLoadingOutput
        /\ outs' = IF done THEN issueOut(outs, id, polls[i].cap, "poll") ELSE outs
        /\ outFetched' = IF done THEN [outFetched EXCEPT ![id] = IF @ < 2 THEN @ + 1 ELSE @]
                         ELSE outFetched
  /\ polls' = Overtake(polls, i)
  /\ UNCHANGED <<file, fileUrl, jobId, outputBlobUrl, loadingJobId,
                 liveIn, liveOut, runs, nLoads, creates, loads, srv,
                 rowsPerPage, totalJobs, runHistory, projVars, blobOf, downVars>>

\* pollJobStatus after getJob threw: the catch block.
PollFail(i) ==
  /\ i \in 1 .. Len(polls)
  /\ LET sp == stopPolling(pollIntervalRef, timers)
     IN /\ pollIntervalRef' = sp.ref
        /\ timers' = sp.timers
  /\ error' = "Failed to fetch job"
  /\ polls' = RemoveAt(polls, i)
  /\ UNCHANGED <<file, fileUrl, jobId, job, status, progress, logs, outputUrl,
                 outputBlobUrl, isLoadingOutput, loadingJobId,
                 liveIn, liveOut, runs, nLoads, creates, loads, outs, srv, histVars, outFetched, projVars, blobOf, downVars>>

\* -------------------------------------------------------- the output blob
\* fetchOutputAsBlob after fetch and res.blob() resolved: revoke the
\* outputBlobUrl its closure holds, create the new URL, set it; the render
\* that follows runs the cleanup of the effect on [outputBlobUrl].  A history
\* load awaits it and then clears loadingJobId.
OutOk(i) ==
  /\ i \in 1 .. Len(outs)
  /\ CanCreate
  /\ LET out1 == revoke(outs[i].cap, liveOut)
         blobUrl == createObjectURL
         out2 == out1 \cup {blobUrl}
     IN /\ outputBlobUrl' = blobUrl
        /\ liveOut' = outputBlobUrlCleanup(outputBlobUrl, blobUrl, out2)
        /\ blobOf' = [b \in BlobIds |->
                        IF b = blobUrl THEN outs[i].job
                        ELSE IF b \in liveOut' THEN blobOf[b] ELSE NoId]
  /\ isLoadingOutput' = FALSE
  /\ loadingJobId' = IF outs[i].from = "load" THEN NoId ELSE loadingJobId
  /\ outs' = RemoveAt(outs, i)
  /\ UNCHANGED <<file, fileUrl, jobId, job, status, progress, logs, error, outputUrl,
                 pollIntervalRef, timers, liveIn,
                 runs, nLoads, creates, polls, loads, srv, histVars, outFetched, projVars, downVars>>

\* fetchOutputAsBlob after the fetch failed (network error or !res.ok).
OutFail(i) ==
  /\ i \in 1 .. Len(outs)
  /\ error' = "Failed to fetch output video"
  /\ isLoadingOutput' = FALSE
  /\ loadingJobId' = IF outs[i].from = "load" THEN NoId ELSE loadingJobId
  /\ outs' = RemoveAt(outs, i)
  /\ UNCHANGED <<file, fileUrl, jobId, job, status, progress, logs, outputUrl,
                 outputBlobUrl, envVars, runs, nLoads, creates, polls, loads, srv,
                 histVars, outFetched, projVars, blobOf, downVars>>

\* ----------------------------------------------------------- run history
\* handleLoadJob(historyJob) up to its await, or its early return for a row
\* that is not COMPLETE or has no output; the play button of a COMPLETE row
\* with output is disabled only while that row is loading.
LoadJob(r, maxLoads) ==
  /\ r \in runHistory.rows
  /\ IF ~canPlay(r)
       THEN UNCHANGED vars
       ELSE /\ loadingJobId # r.job_id
            /\ Len(loads) < MaxLoads
            /\ nLoads < maxLoads
            /\ nLoads' = nLoads + 1
            /\ loadingJobId' = r.job_id
            /\ LET sp == stopPolling(pollIntervalRef, timers)
                   cb == cleanupBlobUrls(outputBlobUrl, liveOut)
               IN /\ pollIntervalRef' = sp.ref
                  /\ timers' = sp.timers
                  /\ outputBlobUrl' = cb.outputBlobUrl
                  /\ liveOut' = outputBlobUrlCleanup(outputBlobUrl, cb.outputBlobUrl,
                                                     cb.liveOut)
            /\ loads' = Append(loads, [job |-> r.job_id, cap |-> outputBlobUrl,
                                        ref |-> pollIntervalRef])
            /\ UNCHANGED <<file, fileUrl, jobId, job, status, progress, logs, error,
                           outputUrl, isLoadingOutput, liveIn,
                           runs, creates, polls, outs, srv, histVars, outFetched, projVars, blobOf, downVars>>

\* handleLoadJob after getJob resolved; setFileUrl(null) makes the render
\* run the cleanup of the effect on [stopPolling, fileUrl].
LoadOk(i, maxOuts) ==
  /\ i \in 1 .. Len(loads)
  /\ Len(outs) < maxOuts
  /\ LET h == loads[i].job
         fullJob == Snap[LastRank]
         sp == fileUrlCleanup(fileUrl, NoId, [ref |-> pollIntervalRef, timers |-> timers])
         se == statusEffect(status, mapBackendToUIStatus(fullJob.status, fullJob.stage),
                            page, rowsPerPage, hists)
     IN /\ Len(se.hists) <= MaxHist
        /\ page' = se.page /\ hists' = se.hists /\ isLoadingHistory' = se.loading
        /\ file' = NULL
        /\ fileUrl' = NoId
        /\ jobId' = h
        /\ job' = JobOf(h, fullJob)
        /\ status' = mapBackendToUIStatus(fullJob.status, fullJob.stage)
        /\ progress' = fullJob.progress
        /\ logs' = SnapLogs(fullJob)
        /\ outputUrl' = getOutputUrl(h)
        /\ error' = NULL
        /\ isLoadingOutput' = TRUE
        /\ outs' = issueOut(outs, h, loads[i].cap, "load")
        /\ pollIntervalRef' = sp.ref
        /\ timers' = sp.timers
        /\ liveIn' = fileUrlRevoke(fileUrl, NoId, liveIn)
  /\ loads' = RemoveAt(loads, i)
  /\ UNCHANGED <<outputBlobUrl, loadingJobId, liveOut,
                 runs, nLoads, creates, polls, srv,
                 rowsPerPage, totalJobs, runHistory, outFetched, projVars, blobOf, downVars>>

\* handleLoadJob after getJob threw: catch, then finally.
LoadFail(i) ==
  /\ i \in 1 .. Len(loads)
  /\ error' = "Failed to load job"
  /\ loadingJobId' = NoId
  /\ loads' = RemoveAt(loads, i)
  /\ UNCHANGED <<file, fileUrl, jobId, job, status, progress, logs, outputUrl,
                 outputBlobUrl, isLoadingOutput, envVars,
                 runs, nLoads, creates, polls, outs, srv, histVars, outFetched, projVars, blobOf, downVars>>

\* ------------------------------------------------- run history, continued
\* fetchRunHistory after getJobs resolved, the backend listing `total` jobs.
HistOk(i, total) ==
  /\ i \in 1 .. Len(hists)
  /\ runHistory' = Window(hists[i], total)
  /\ totalJobs' = total
  /\ isLoadingHistory' = FALSE
  /\ hists' = RemoveAt(hists, i)
  /\ UNCHANGED <<viewVars, envVars, netVars, page, rowsPerPage, outFetched, projVars, blobOf, downVars>>

\* fetchRunHistory after getJobs threw: logged to the console, then finally.
HistFail(i) ==
  /\ i \in 1 .. Len(hists)
  /\ isLoadingHistory' = FALSE
  /\ hists' = RemoveAt(hists, i)
  /\ UNCHANGED <<viewVars, envVars, netVars, page, rowsPerPage, totalJobs,
                 runHistory, outFetched, projVars, blobOf, downVars>>

\* handlePageChange(newPage), from the previous and next buttons of the
\* TablePagination (count = totalJobs); the render runs the effect on
\* [fetchRunHistory, page, rowsPerPage].
handlePageChange(newPage) ==
  /\ \/ newPage = page - 1 /\ page > 1
     \/ newPage = page + 1 /\ page * rowsPerPage < totalJobs
  /\ Len(hists) < MaxHist
  /\ page' = newPage
  /\ hists' = fetchRunHistory(hists, newPage, rowsPerPage)
  /\ isLoadingHistory' = TRUE
  /\ UNCHANGED <<viewVars, envVars, netVars, rowsPerPage, totalJobs,
                 runHistory, outFetched, projVars, blobOf, downVars>>

\* handleRowsPerPageChange without setPage(1).
handleRowsPerPageChangeKeepsPage(newRowsPerPage) ==
  /\ newRowsPerPage # rowsPerPage
  /\ Len(hists) < MaxHist
  /\ rowsPerPage' = newRowsPerPage
  /\ hists' = fetchRunHistory(hists, page, newRowsPerPage)
  /\ isLoadingHistory' = TRUE
  /\ UNCHANGED <<viewVars, envVars, netVars, page, totalJobs, runHistory,
                 outFetched, projVars, blobOf, downVars>>

\* handleRowsPerPageChange(newRowsPerPage), from the rows select: both state
\* updates are batched into one render, whose effect on [fetchRunHistory,
\* page, rowsPerPage] fetches once.
handleRowsPerPageChange(newRowsPerPage) ==
  /\ newRowsPerPage # rowsPerPage
  /\ Len(hists) < MaxHist
  /\ rowsPerPage' = newRowsPerPage
  /\ page' = 1
  /\ hists' = fetchRunHistory(hists, 1, newRowsPerPage)
  /\ isLoadingHistory' = TRUE
  /\ UNCHANGED <<viewVars, envVars, netVars, totalJobs, runHistory, outFetched, projVars, blobOf, downVars>>

\* ---------------------------------------------------------------- download
\* handleDownload up to its await, from the Download Output button: it
\* returns at once without a jobId, else downloadOutput(jobId) fetches the
\* output.
Download ==
  /\ ~downloadDisabled
  /\ IF jobId = NoId
       THEN UNCHANGED vars
       ELSE /\ Len(downs) < MaxDownloads
            /\ downs' = Append(downs, jobId)
            /\ UNCHANGED <<viewVars, envVars, netVars, histVars, auxVars, projVars,
                           blobOf, downloadBlobs>>

\* downloadOutput after the fetch and blob resolved: an object URL of its own
\* is created, clicked through an anchor, and revoked a second later.
DownloadOk(i) ==
  /\ i \in 1 .. Len(downs)
  /\ downloadBlobs < MaxDownBlobs
  /\ downloadBlobs' = downloadBlobs + 1
  /\ downs' = RemoveAt(downs, i)
  /\ UNCHANGED <<viewVars, envVars, netVars, histVars, auxVars, projVars, blobOf>>

\* The setTimeout of downloadOutput: URL.revokeObjectURL(blobUrl).
DownloadRevoke ==
  /\ downloadBlobs > 0
  /\ downloadBlobs' = downloadBlobs - 1
  /\ UNCHANGED <<viewVars, envVars, netVars, histVars, auxVars, projVars, blobOf, downs>>

\* handleDownload after downloadOutput threw: the catch block.
DownloadFail(i) ==
  /\ i \in 1 .. Len(downs)
  /\ error' = "Download failed"
  /\ downs' = RemoveAt(downs, i)
  /\ UNCHANGED <<file, fileUrl, jobId, job, status, progress, logs, outputUrl,
                 outputBlobUrl, isLoadingOutput, loadingJobId,
                 envVars, netVars, histVars, auxVars, projVars, blobOf,
                 downloadBlobs>>

\* ------------------------------------------------------ the specification
\* The tasks of a job run, when at most maxRuns submissions are made and at
\* most maxPolls status fetches and maxOuts output fetches are in flight.
StepJob(maxRuns, maxPolls, maxOuts) ==
  \/ \E f \in Files : SelectFile(f)
  \/ Reset
  \/ Run(maxRuns)
  \/ \E i \in 1 .. MaxJobs : CreateOk(i, maxPolls)
  \/ \E i \in 1 .. MaxJobs : CreateFail(i)
  \/ \E t \in timers : Tick(t, maxPolls)
  \/ \E i \in 1 .. MaxInFlight : \E p \in 1 .. FailedPos : PollOk(i, p, maxOuts)
  \/ \E i \in 1 .. MaxInFlight : PollFail(i)
  \/ \E i \in 1 .. MaxOutFetch : OutOk(i)
  \/ \E i \in 1 .. MaxOutFetch : OutFail(i)
  \/ \E j \in JobIds : SrvAdvance(j)
  \/ \E j \in JobIds : SrvFail(j)

\* The tasks of loading a row of the run history.
StepLoad(maxLoads, maxOuts) ==
  \/ \E r \in HistRows : LoadJob(r, maxLoads)
  \/ \E i \in 1 .. MaxLoads : LoadOk(i, maxOuts)
  \/ \E i \in 1 .. MaxLoads : LoadFail(i)

\* The replies to the history fetches, the backend listing one of `totals`.
StepHist(totals) ==
  \/ \E i \in 1 .. MaxHist : \E total \in totals : HistOk(i, total)
  \/ \E i \in 1 .. MaxHist : HistFail(i)

\* The pagination controls of the run history.
StepPager ==
  \/ \E n \in 1 .. BigTotal : handlePageChange(n)
  \/ \E n \in Sizes : handleRowsPerPageChange(n)

\* The download of the output.
StepDownload ==
  \/ Download
  \/ \E i \in 1 .. MaxDownloads : DownloadOk(i)
  \/ \E i \in 1 .. MaxDownloads : DownloadFail(i)
  \/ DownloadRevoke

\* One submission, with status fetches and output fetches overlapping; the
\* pagination controls are left alone.
Next ==
  \/ StepJob(OneRun, MaxInFlight, MaxOutFetch)
  \/ StepLoad(MaxLoadsRun, MaxOutFetch)
  \/ StepHist({SmallTotal})
Spec == Init /\ [][Next]_vars

\* Several submissions, one status fetch and one output fetch at a time; the
\* pagination controls are left alone.
NextRuns ==
  \/ StepJob(MaxJobs, OnePoll, OneOut)
  \/ StepLoad(OneLoad, OneOut)
  \/ StepHist({SmallTotal})
SpecRuns == Init /\ [][NextRuns]_vars

\* One submission and the pagination controls, no row of the history loaded.
NextHist ==
  \/ StepJob(OneRun, OnePoll, OneOut)
  \/ StepHist(Totals)
  \/ StepPager
SpecHist == Init /\ [][NextHist]_vars

\* One submission, one history load and the download of the output, one
\* request of each kind at a time.
NextDownload ==
  \/ StepJob(OneRun, OnePoll, OneOut)
  \/ StepLoad(OneLoad, OneOut)
  \/ StepHist({SmallTotal})
  \/ StepDownload
SpecDownload == Init /\ [][NextDownload]_vars

\* The projection of a backend (status, stage) pair, as the page and the
\* stepper would compute it: the pair is any a job can carry.
InitProj ==
  /\ InitPage
  /\ projIn \in [status : BackendStatuses, stage : BackendStages]
  /\ projOut = NoProj

project ==
  /\ projOut = NoProj
  /\ projOut' = [uiStatus |-> mapBackendToUIStatus(projIn.status, projIn.stage),
                 step |-> getStepFromBackend(projIn.status, projIn.stage)]
  /\ UNCHANGED <<viewVars, envVars, netVars, histVars, auxVars, projIn, blobOf, downVars>>

NextProj == project
SpecProj == InitProj /\ [][NextProj]_vars

\* ------------------------------------------------------------- the claims
LoopIds(tm) == {t.id : t \in tm}
PollIdx == 1 .. MaxInFlight
Positions == 1 .. FailedPos
Terminal(p) == SnapAt(p).status \in {"COMPLETE", "FAILED"}

\* C1: in every reachable state at most one interval is active, and an active
\* interval is the one pollIntervalRef holds.
C1_OnePollLoop ==
  /\ Cardinality(timers) <= 1
  /\ \A t \in timers : t.id = pollIntervalRef

\* C2: a status fetch of a poll loop that completes after its loop was stopped
\* changes none of job, status, progress, logs, outputUrl, error and starts
\* no output fetch.
C2_StoppedPollDiscarded ==
  [][\A i \in PollIdx :
       ((\E p \in Positions : PollOk(i, p, MaxOutFetch)) \/ PollFail(i))
         /\ polls[i].loop \notin LoopIds(timers)
       => UNCHANGED <<job, status, progress, logs, outputUrl, error, outs>>]_vars

\* C3: the response of a tick is never applied after the response of a later
\* tick of the same job.
C3_AppliedInIssueOrder ==
  [][\A i \in PollIdx : \A p \in Positions :
       PollOk(i, p, MaxOutFetch) => ~polls[i].late]_vars

\* C4: a poll that returns COMPLETE stops the polling of its job, makes the
\* status complete with stepper position 5, and the output fetch of that job
\* run has then been started exactly once.
C4_CompleteOnce ==
  [][\A i \in PollIdx : \A p \in Positions :
       PollOk(i, p, MaxOutFetch) /\ SnapAt(p).status = "COMPLETE"
       => /\ polls[i].loop \notin LoopIds(timers')
          /\ status' = "complete"
          /\ getActiveStep(status', job'.stage) = 5
          /\ outFetched'[polls[i].loop] = 1]_vars

\* C5: a poll that returns FAILED stops the polling of its job, sets the
\* error, makes the status failed with stepper position -1, and no output
\* fetch of that job is ever started.
C5_FailedStops ==
  [][\A i \in PollIdx : \A p \in Positions :
       PollOk(i, p, MaxOutFetch) /\ SnapAt(p).status = "FAILED"
       => /\ polls[i].loop \notin LoopIds(timers')
          /\ error' # NULL
          /\ status' = "failed"
          /\ getActiveStep(status', job'.stage) = -1
          /\ outFetched'[polls[i].loop] = 0
          /\ \A k \in 1 .. Len(outs') : outs'[k].job # polls[i].loop]_vars

\* The steps that stop the poller on purpose: selectFile, reset, loadHistorical,
\* and the effect cleanup of a render in which fileUrl changed.
CancelStep ==
  \/ \E f \in Files : SelectFile(f)
  \/ Reset
  \/ \E r \in HistRows : canPlay(r) /\ LoadJob(r, MaxLoadsRun)
  \/ fileUrl' # fileUrl /\ \E i \in 1 .. MaxLoads : LoadOk(i, MaxOutFetch)
TerminalStep ==
  \E i \in PollIdx : \E p \in Positions : Terminal(p) /\ PollOk(i, p, MaxOutFetch)
PollFailStep == \E i \in PollIdx : PollFail(i)
SomeCleared == timers \ timers' # {}
RefCleared == pollIntervalRef' = NoId /\ pollIntervalRef \notin LoopIds(timers')

C7_FailFast ==
  [][\A i \in PollIdx :
       PollFail(i)
       => /\ error' # NULL
          /\ polls[i].loop \notin LoopIds(timers')
          /\ job' = job /\ status' = status]_vars

\* C8: at most one live handle per kind in every state, and a handle of a kind
\* is created only once no other handle of that kind is live.
C8_OneHandlePerKind ==
  [][/\ Cardinality(liveIn') <= 1 /\ Cardinality(liveOut') <= 1
     /\ \A i \in 1 .. MaxOutFetch :
          OutOk(i) => revoke(outs[i].cap, liveOut) = {}
     /\ \A f \in Files :
          SelectFile(f) => revoke(fileUrl, liveIn) = {}]_vars

\* C9: right after reset no interval is active, both handles are revoked and
\* cleared, the status is idle and file, jobId, job, outputUrl, error are null.
C9_ResetClears ==
  [][Reset
     => /\ timers' = {} /\ pollIntervalRef' = NoId
        /\ liveIn' = {} /\ liveOut' = {}
        /\ fileUrl' = NoId /\ outputBlobUrl' = NoId
        /\ status' = "idle"
        /\ file' = NULL /\ jobId' = NoId /\ job' = NoJob
        /\ outputUrl' = NoUrl /\ error' = NULL]_vars

\* C10: right after selectFile(f) no interval is active, the previous input
\* handle is revoked, the input handle is a new one for f, the status is idle
\* and jobId, job, outputUrl, error are null.
C10_SelectFileClears ==
  [][\A f \in Files :
       SelectFile(f)
       => /\ timers' = {} /\ pollIntervalRef' = NoId
          /\ fileUrl \notin liveIn'
          /\ file' = f
          /\ fileUrl' # NoId /\ fileUrl' # fileUrl /\ fileUrl' \notin liveIn
          /\ liveIn' = {fileUrl'}
          /\ status' = "idle"
          /\ jobId' = NoId /\ job' = NoJob
          /\ outputUrl' = NoUrl /\ error' = NULL]_vars

\* C11: the reset transition is available in every reachable state, the
\* running states and the state a failed poll leaves behind included.
C11_ResetAvailable == ENABLED Reset

\* C12: run() is accepted only with a file selected and nothing outstanding:
\* no submission is issued and no poll loop is started while an earlier
\* submission is awaiting its response or an earlier poll loop is active.
C12_RunGuard ==
  [][/\ Run(MaxJobs) => file # NULL /\ creates = <<>> /\ timers = {}
     /\ \A i \in 1 .. MaxJobs :
          CreateOk(i, MaxInFlight) => Len(creates) = 1 /\ timers = {}]_vars

\* C13: run() sets the status to uploading; when the submission succeeds the
\* status becomes the projection of the returned job (queued, stepper position
\* 0), jobId and job are the returned job, and a poll loop for that job id,
\* and no other, is started.
C13_SubmitSucceeds ==
  [][/\ Run(MaxJobs) => status' = "uploading"
     /\ \A i \in 1 .. MaxJobs :
          CreateOk(i, MaxInFlight)
          => /\ job'.status = "QUEUED" /\ job'.stage = "UPLOAD"
             /\ status' = mapBackendToUIStatus(job'.status, job'.stage)
             /\ status' = "queued"
             /\ getActiveStep(status', job'.stage) = 0
             /\ jobId' \in JobIds /\ job'.job_id = jobId'
             /\ srv[jobId'].rank = 0 /\ srv'[jobId'].rank = 1
             /\ LoopIds(timers' \ timers) = {jobId'}
             /\ pollIntervalRef' = jobId'
             /\ polls'[Len(polls')].loop = jobId']_vars

\* C13, its case: the state right after a submission succeeded.
C13_Witness ==
  /\ logs = <<"uploading", "created">>
  /\ status = "queued" /\ jobId \in JobIds /\ job.job_id = jobId
  /\ pollIntervalRef = jobId /\ jobId \in LoopIds(timers)

\* C14: when the submission fails the status becomes failed, the error is
\* set, job is null and no poll loop is started; and with no file selected no
\* submission is issued and the status does not become uploading.
C14_SubmitFails ==
  [][/\ \A i \in 1 .. MaxJobs :
          CreateFail(i)
          => /\ status' = "failed" /\ error' # NULL
             /\ job' = NoJob
             /\ timers' = timers /\ pollIntervalRef' = pollIntervalRef
             /\ polls' = polls
     /\ file = NULL => /\ Len(creates') <= Len(creates)
                       /\ status' = "uploading" => status = "uploading"]_vars

\* C15: loadHistorical of a row that is not COMPLETE or has no output changes
\* no state variable and issues no request.
C15_LoadSkipped ==
  [][\A r \in HistRows :
       (r.status # "COMPLETE" \/ ~r.has_output) /\ LoadJob(r, MaxLoadsRun)
       => UNCHANGED vars]_vars

\* C15, its case: rows without a play button are shown while a poll loop is
\* active and both handles' owners have something to lose.
C15_Witness ==
  /\ \E r \in runHistory.rows : r.status # "COMPLETE"
  /\ \E r \in runHistory.rows : r.status = "COMPLETE" /\ ~r.has_output
  /\ timers # {} /\ liveIn # {} /\ isRunning

C17_DownloadDisabled ==
  (outputBlobUrl = NoId \/ outs # <<>>) => downloadDisabled

\* The projection table: the (uiStatus, step) of a backend (status, stage).
TableRow(st, stage) ==
  CASE st = NULL -> [uiStatus |-> "idle", step |-> -1]
    [] st = "QUEUED" /\ stage = "UPLOAD" -> [uiStatus |-> "queued", step |-> 0]
    [] st = "QUEUED" /\ stage # "UPLOAD" -> [uiStatus |-> "queued", step |-> 1]
    [] st = "PROCESSING" /\ stage = "RENDERING" -> [uiStatus |-> "rendering", step |-> 3]
    [] st = "PROCESSING" /\ stage # "RENDERING" -> [uiStatus |-> "processing", step |-> 2]
    [] st = "COMPLETE" -> [uiStatus |-> "complete", step |-> 5]
    [] st = "FAILED" -> [uiStatus |-> "failed", step |-> -1]
Tabulated == {NULL, "QUEUED", "PROCESSING", "COMPLETE", "FAILED"}

\* C18: for every backend status (none included) and every stage, the pair
\* (mapBackendToUIStatus, getStepFromBackend) is the row of the projection
\* table.
C18_ProjectionTable ==
  projOut # NoProj /\ projIn.status \in Tabulated
  => projOut = TableRow(projIn.status, projIn.stage)

\* C18, its case: PROCESSING with stage RENDERING projected to (rendering, 3).
C18_Witness ==
  /\ projIn = [status |-> "PROCESSING", stage |-> "RENDERING"]
  /\ projOut = [uiStatus |-> "rendering", step |-> 3]

\* C19: onRowsPerPageChange(newSize) sets the page to 1 and issues exactly
\* one history fetch, with limit newSize and offset 0.
C19_RowsChangeFetch ==
  [][\A n \in Sizes :
       handleRowsPerPageChange(n)
       => /\ page' = 1 /\ rowsPerPage' = n
          /\ hists' = Append(hists, [limit |-> n, offset |-> 0])]_vars

\* C19, its case: the rows per page changed to 10, the fetch for the first
\* page of 10 in flight as the last one issued.
C19_Witness ==
  /\ rowsPerPage = 10 /\ page = 1
  /\ hists # <<>> /\ hists[Len(hists)] = [limit |-> 10, offset |-> 0]
  /\ runHistory.limit = 5 /\ runHistory.offset = 10

Ceil(a, b) == (a + b - 1) \div b

\* C20, as claimed: after a change of rowsPerPage,
\* page <= ceil(totalJobs / rowsPerPage), an empty history included.
C20_PageWithinTotal ==
  [][\A n \in Sizes :
       handleRowsPerPageChange(n) => page' <= Ceil(totalJobs', rowsPerPage')]_vars

\* C20, amended: after a change of rowsPerPage the page is 1, which is
\* <= ceil(totalJobs / rowsPerPage) whenever the history is not empty.
C20_Amended ==
  [][\A n \in Sizes :
       handleRowsPerPageChange(n)
       => /\ page' = 1
          /\ totalJobs' >= 1 => page' <= Ceil(totalJobs', rowsPerPage')]_vars

\* C20, its case: rowsPerPage changed from its initial 5 while the history is
\* empty: page 1 of 0 pages.
C20_Witness ==
  /\ rowsPerPage = 10 /\ page = 1 /\ totalJobs = 0
  /\ runHistory # NoWindow
  /\ \E k \in 1 .. Len(hists) : hists[k].limit = 10

\* C21: whenever the status changes to complete or to failed, the history
\* page is reset to 1 and a history fetch with offset 0 and the current
\* rowsPerPage is issued.
C21_TerminalRefetch ==
  [][status' \in {"complete", "failed"} /\ status' # status
     => /\ page' = 1
        /\ Len(hists') > Len(hists)
        /\ SubSeq(hists', 1, Len(hists)) = hists
        /\ \A k \in (Len(hists) + 1) .. Len(hists') :
             hists'[k] = [limit |-> rowsPerPage', offset |-> 0]]_vars

\* C21, its case: a job failed while a later page of 10 rows was shown; the
\* page is back to 1 and the fetch of the first 10 rows is in flight.
C21_Witness ==
  /\ status = "failed" /\ job.status = "FAILED"
  /\ rowsPerPage = 10 /\ page = 1
  /\ runHistory.limit = 10 /\ runHistory.offset = 10
  /\ hists # <<>> /\ hists[Len(hists)] = [limit |-> 10, offset |-> 0]

\* The failure of a network operation the controller started.
NetworkFailure ==
  \/ \E i \in 1 .. MaxJobs : CreateFail(i)
  \/ \E i \in 1 .. MaxInFlight : PollFail(i)
  \/ \E i \in 1 .. MaxOutFetch : OutFail(i)
  \/ \E i \in 1 .. MaxLoads : LoadFail(i)
  \/ \E i \in 1 .. MaxHist : HistFail(i)
  \/ \E i \in 1 .. MaxDownloads : DownloadFail(i)

\* C22: every failure of a network operation started by the controller (job
\* submission, status poll, output fetch, download, full-job fetch of a
\* history load, history list fetch) is recorded in the error field of the
\* view-model; none is silently dropped.
C22_FailuresRecorded == [][NetworkFailure => error' # NULL]_vars

\* C23: stopPolling, cleanupBlobUrls and the release of a handle are
\* idempotent: a second call in a row (from the same closure or from the next
\* render's) leaves the state the first call left, and a call with no interval
\* in the ref, no outputBlobUrl, a null or an already revoked handle changes
\* nothing.
C23_Idempotent ==
  LET sp == stopPolling(pollIntervalRef, timers)
      cb == cleanupBlobUrls(outputBlobUrl, liveOut)
  IN /\ stopPolling(sp.ref, sp.timers) = sp
     /\ pollIntervalRef = NoId
          => sp = [ref |-> pollIntervalRef, timers |-> timers]
     /\ cleanupBlobUrls(cb.outputBlobUrl, cb.liveOut) = cb
     /\ cleanupBlobUrls(outputBlobUrl, cb.liveOut) = cb
     /\ outputBlobUrl = NoId
          => cb = [outputBlobUrl |-> outputBlobUrl, liveOut |-> liveOut]
     /\ \A u \in BlobIds \cup {NoId} :
          /\ revoke(u, revoke(u, liveOut)) = revoke(u, liveOut)
          /\ revoke(u, revoke(u, liveIn)) = revoke(u, liveIn)
          /\ u = NoId \/ u \notin liveOut => revoke(u, liveOut) = liveOut
          /\ u = NoId \/ u \notin liveIn => revoke(u, liveIn) = liveIn

\* C23 witness: an interval in the ref beside a second interval, and a live
\* output handle, so that each first call acts.
C23_Witness ==
  /\ pollIntervalRef # NoId
  /\ Cardinality(timers) = 2
  /\ stopPolling(pollIntervalRef, timers).timers # timers
  /\ outputBlobUrl # NoId /\ outputBlobUrl \in liveOut
  /\ cleanupBlobUrls(outputBlobUrl, liveOut).liveOut # liveOut

\* C24: once the status is complete or failed, no response of a status fetch
\* changes it: it never goes back to queued, processing or rendering through
\* a poll that arrives later.
C24_TerminalStable ==
  [][\A i \in PollIdx : \A p \in Positions :
       PollOk(i, p, MaxOutFetch) /\ status \in {"complete", "failed"}
       => status' = status]_vars

\* C25: when the getJob of a history load fails, the status is failed, or the
\* status is unchanged and the interval and the output handle that
\* handleLoadJob found when it was called (ref and cap of the request) are
\* still active and live.
C25_LoadFailureKeepsState ==
  [][\A i \in 1 .. MaxLoads :
       LoadFail(i)
       => \/ status' = "failed"
          \/ /\ status' = status
             /\ loads[i].ref # NoId
                  => /\ pollIntervalRef' = loads[i].ref
                     /\ loads[i].ref \in LoopIds(timers')
             /\ loads[i].cap # NoId
                  => /\ outputBlobUrl' = loads[i].cap
                     /\ loads[i].cap \in liveOut']_vars

\* C26: while the status is uploading there is no job and no jobId, and
\* mapBackendToUIStatus never returns uploading.
C26_UploadingHasNoJob ==
  /\ status = "uploading" => job = NoJob /\ jobId = NoId
  /\ \A st \in BackendStatuses : \A sg \in BackendStages :
       mapBackendToUIStatus(st, sg) # "uploading"

\* C27: when a history fetch succeeds and leaves no history fetch in flight,
\* the window displayed is the reply to the request of the current page and
\* rowsPerPage; the late reply to an earlier request does not replace it.
C27_WindowOfCurrentPage ==
  [][\A i \in 1 .. MaxHist : \A total \in Totals \cup {SmallTotal} :
       HistOk(i, total) /\ hists' = <<>>
       => /\ runHistory'.limit = rowsPerPage'
          /\ runHistory'.offset = (page' - 1) * rowsPerPage'
          /\ runHistory' = Window([limit |-> rowsPerPage',
                                    offset |-> (page' - 1) * rowsPerPage'],
                                   totalJobs')]_vars

\* C28: whenever there is a job, the status is the projection of its backend
\* status and stage.
C28_StatusIsProjection ==
  job # NoJob => status = mapBackendToUIStatus(job.status, job.stage)

\* C29: in every reachable state where the status is queued, processing or
\* rendering, a poll interval is active or a status fetch is in flight, so the
\* status can still reach complete or failed.
C29_RunningIsPolled ==
  status \in {"queued", "processing", "rendering"}
    => timers # {} \/ polls # <<>>

\* No createJob, getJob, output fetch, history fetch or download in flight.
Quiescent ==
  /\ creates = <<>> /\ polls = <<>> /\ loads = <<>> /\ outs = <<>>
  /\ hists = <<>> /\ downs = <<>>

\* C30: in every state with no fetch in flight and a job, the job is the job
\* of jobId, outputUrl (if set) is the output URL of jobId, and the live
\* output blob URL (if any) holds the output of jobId.
C30_CoherentWhenSettled ==
  Quiescent /\ job # NoJob
    => /\ job.job_id = jobId
       /\ outputUrl # NoUrl => outputUrl = getOutputUrl(jobId)
       /\ outputBlobUrl # NoId /\ outputBlobUrl \in liveOut
            => blobOf[outputBlobUrl] = jobId

====
